---- MODULE Spec2Model ----
(***************************************************************************)
(* LS-8 emulator, src/project/ls8/cpu.js, the full CPU class (lines 1-352; *)
(* the file carries a second, shorter skeleton copy of the class after it, *)
(* which is not modelled).                                                 *)
(*                                                                         *)
(* The CPU is JavaScript: its registers and memory cells hold JavaScript   *)
(* values, not bytes.  A value is a record [k, n, d]:                      *)
(*    k = "num"    the finite number n/d (lowest terms, d > 0), +0 if n=0  *)
(*    k = "nzero"  -0                                                      *)
(*    k = "nan", "inf", "ninf"   NaN, +Infinity, -Infinity                 *)
(*    k = "undef"  undefined                                               *)
(* Arithmetic is exact on n/d; IEEE-754 rounding of non-dyadic quotients   *)
(* is not modelled.  Magnitudes are kept below 2^31 by MaxMag, where       *)
(* ToInt32 is truncation toward zero.                                      *)
(***************************************************************************)
EXTENDS Integers, Sequences, FiniteSets, TLC

\* ------------------------------------------------------------ opcodes
HLT == 1
ADD == 168
MUL == 170
LDI == 153
PRN == 67
POP == 76
PUSH == 77
CALL == 72
RET == 9
AND == 179
NOP == 0
INC == 120
DEC == 121
DIV == 171
CMP == 160
JEQ == 81
JNE == 82
JMP == 80
MOD == 172
NOT == 112
OR == 177
SUB == 169
XOR == 178

\* The stack pointer's register index.  cpu.js uses SP without declaring it;
\* the LS-8 convention (and the claims' "registers 0..6") is R7.
SP == 7

\* ------------------------------------------------------------ bounds
\* Instructions after the two LDI of a generated program.
MaxBody == 2
\* Ticks explored per run.
MaxTicks == 9
\* Arithmetic (+ - * / % and comparison) is explored on operands whose
\* numerator and denominator are at most MaxMag in magnitude.
MaxMag == 4096
\* Ticks whose starting machine the history pre keeps.
HistLen == 4

\* ------------------------------------------------------------ JS values
Num(i) == [k |-> "num", n |-> i, d |-> 1]
NaN == [k |-> "nan", n |-> 0, d |-> 1]
PosInf == [k |-> "inf", n |-> 0, d |-> 1]
NegInf == [k |-> "ninf", n |-> 0, d |-> 1]
NegZero == [k |-> "nzero", n |-> 0, d |-> 1]
Undef == [k |-> "undef", n |-> 0, d |-> 1]

Abs(i) == IF i < 0 THEN -i ELSE i

RECURSIVE GCD(_, _)
GCD(a, b) == IF b = 0 THEN a ELSE GCD(b, a % b)

\* n/d with d # 0, in lowest terms with a positive denominator.
Frac(n, d) ==
    LET g == GCD(Abs(n), Abs(d))
        s == IF d < 0 THEN -1 ELSE 1
    IN  [k |-> "num", n |-> s * (n \div g), d |-> s * (d \div g)]

\* ToNumber: undefined becomes NaN.
ToNumber(v) == IF v.k = "undef" THEN NaN ELSE v

IsInf(v) == v.k \in {"inf", "ninf"}
IsZero(v) == v.k = "nzero" \/ (v.k = "num" /\ v.n = 0)
Sign(v) == IF v.k \in {"nzero", "ninf"} \/ (v.k = "num" /\ v.n < 0) THEN -1 ELSE 1
MkZero(s) == IF s < 0 THEN NegZero ELSE Num(0)
MkInf(s) == IF s < 0 THEN NegInf ELSE PosInf
\* The finite number n/d; a zero result takes the sign s.
MkFin(n, d, s) == IF n = 0 THEN MkZero(s) ELSE Frac(n, d)

\* Truncation toward zero of n/d, d > 0.
Trunc(n, d) == IF n >= 0 THEN n \div d ELSE -((-n) \div d)

\* ToInt32 on magnitudes below 2^31.
ToInt32(v) == IF v.k = "num" THEN Trunc(v.n, v.d) ELSE 0

JsNeg(x) ==
    LET a == ToNumber(x)
    IN  IF a.k = "nan" THEN NaN
        ELSE IF a.k = "inf" THEN NegInf
        ELSE IF a.k = "ninf" THEN PosInf
        ELSE IF a.k = "nzero" THEN Num(0)
        ELSE IF a.n = 0 THEN NegZero
        ELSE [k |-> "num", n |-> -a.n, d |-> a.d]

\* x + y on numbers and undefined.
JsAdd(x, y) ==
    LET a == ToNumber(x)
        b == ToNumber(y)
    IN  IF a.k = "nan" \/ b.k = "nan" THEN NaN
        ELSE IF IsInf(a) /\ IsInf(b) THEN (IF a.k = b.k THEN a ELSE NaN)
        ELSE IF IsInf(a) THEN a
        ELSE IF IsInf(b) THEN b
        ELSE IF IsZero(a) /\ IsZero(b)
             THEN (IF a.k = "nzero" /\ b.k = "nzero" THEN NegZero ELSE Num(0))
        ELSE MkFin(a.n * b.d + b.n * a.d, a.d * b.d, 1)

JsSub(x, y) == JsAdd(x, JsNeg(y))

JsMul(x, y) ==
    LET a == ToNumber(x)
        b == ToNumber(y)
        s == Sign(a) * Sign(b)
    IN  IF a.k = "nan" \/ b.k = "nan" THEN NaN
        ELSE IF IsInf(a) \/ IsInf(b)
             THEN (IF IsZero(a) \/ IsZero(b) THEN NaN ELSE MkInf(s))
        ELSE MkFin(a.n * b.n, a.d * b.d, s)

JsDiv(x, y) ==
    LET a == ToNumber(x)
        b == ToNumber(y)
        s == Sign(a) * Sign(b)
    IN  IF a.k = "nan" \/ b.k = "nan" THEN NaN
        ELSE IF IsInf(a) THEN (IF IsInf(b) THEN NaN ELSE MkInf(s))
        ELSE IF IsInf(b) THEN MkZero(s)
        ELSE IF IsZero(b) THEN (IF IsZero(a) THEN NaN ELSE MkInf(s))
        ELSE MkFin(a.n * b.d, a.d * b.n, s)

\* x % y: the remainder takes the sign of the dividend.
JsMod(x, y) ==
    LET a == ToNumber(x)
        b == ToNumber(y)
    IN  IF a.k = "nan" \/ b.k = "nan" THEN NaN
        ELSE IF IsInf(a) \/ IsZero(b) THEN NaN
        ELSE IF IsInf(b) \/ IsZero(a) THEN a
        ELSE LET qn == a.n * b.d
                 qd == a.d * b.n
                 q == IF qd > 0 THEN Trunc(qn, qd) ELSE Trunc(-qn, -qd)
             IN  MkFin(a.n * b.d - q * b.n * a.d, a.d * b.d, Sign(a))

\* Bitwise operators on two's-complement integers.
RECURSIVE BitAnd(_, _)
BitAnd(a, b) ==
    IF a = 0 \/ b = 0 THEN 0
    ELSE IF a = -1 THEN b
    ELSE IF b = -1 THEN a
    ELSE 2 * BitAnd(a \div 2, b \div 2) + (a % 2) * (b % 2)

RECURSIVE BitOr(_, _)
BitOr(a, b) ==
    IF a = -1 \/ b = -1 THEN -1
    ELSE IF a = 0 THEN b
    ELSE IF b = 0 THEN a
    ELSE 2 * BitOr(a \div 2, b \div 2) + (IF a % 2 = 1 \/ b % 2 = 1 THEN 1 ELSE 0)

RECURSIVE BitXor(_, _)
BitXor(a, b) ==
    IF a = 0 THEN b
    ELSE IF b = 0 THEN a
    ELSE IF a = -1 THEN -b - 1
    ELSE IF b = -1 THEN -a - 1
    ELSE 2 * BitXor(a \div 2, b \div 2) + (IF a % 2 = b % 2 THEN 0 ELSE 1)

JsAnd(x, y) == Num(BitAnd(ToInt32(x), ToInt32(y)))
JsOr(x, y) == Num(BitOr(ToInt32(x), ToInt32(y)))
JsXor(x, y) == Num(BitXor(ToInt32(x), ToInt32(y)))
JsNot(x) == Num(-ToInt32(x) - 1)

\* x === y: no conversion; NaN equals nothing, +0 equals -0.
StrictEq(x, y) ==
    IF x.k = "nan" \/ y.k = "nan" THEN FALSE
    ELSE IF IsZero(x) /\ IsZero(y) THEN TRUE
    ELSE x = y

\* x < y after ToNumber; false when either is NaN.
JsLt(x, y) ==
    LET a == ToNumber(x)
        b == ToNumber(y)
    IN  IF a.k = "nan" \/ b.k = "nan" THEN FALSE
        ELSE IF a.k = "ninf" THEN b.k # "ninf"
        ELSE IF a.k = "inf" \/ b.k = "ninf" THEN FALSE
        ELSE IF b.k = "inf" THEN TRUE
        ELSE a.n * b.d < b.n * a.d

JsGt(x, y) == JsLt(y, x)

\* The property key a value indexes with: ToString merges -0 into 0.
Key(v) == IF v.k = "nzero" THEN Num(0) ELSE v

\* obj[k], undefined when the property is absent.
Get(obj, k) == IF Key(k) \in DOMAIN obj THEN obj[Key(k)] ELSE Undef

\* obj[k] = v.
Put(obj, k, v) ==
    [x \in DOMAIN obj \cup {Key(k)} |-> IF x = Key(k) THEN v ELSE obj[x]]

\* ------------------------------------------------------------ memory
\* The RAM collaborator: an array of MemSize cells filled with 0.  mem holds
\* the cells written so far; a read outside the array of a cell never
\* written is undefined.
MemSize == 256

InArray(addr) == addr.k = "num" /\ addr.d = 1 /\ addr.n >= 0 /\ addr.n < MemSize

ramRead(m, addr) ==
    IF Key(addr) \in DOMAIN m THEN m[Key(addr)]
    ELSE IF InArray(Key(addr)) THEN Num(0)
    ELSE Undef

ramWrite(m, addr, value) == Put(m, addr, value)

\* ------------------------------------------------------------ state
VARIABLES
    reg,     \* this.reg[...]: property key -> value (keys 0..7 at construction)
    PC,      \* this.reg.PC
    IR,      \* this.reg.IR
    FL,      \* this.reg.FL
    mem,     \* this.ram
    clock,   \* this.clock: "unset", "running" or "stopped"
    out,     \* values written by console.log
    err,     \* diagnostics written by console.error
    loaded,  \* the loader has poked the program
    ticks,   \* ticks executed
    pre      \* the machine before each of the last HistLen ticks, latest first

vars == <<reg, PC, IR, FL, mem, clock, out, err, loaded, ticks, pre>>

\* The part of the machine a handler works on.
Machine == [reg |-> reg, FL |-> FL, mem |-> mem, clock |-> clock, out |-> out, err |-> err]

Snapshot == [reg |-> reg, PC |-> PC, IR |-> IR, FL |-> FL, mem |-> mem, clock |-> clock]

Opcodes == {HLT, ADD, MUL, LDI, PRN, POP, PUSH, CALL, RET, AND, NOP, INC, DEC,
            DIV, CMP, JEQ, JMP, JNE, MOD, NOT, OR, SUB, XOR}

\* branchTable[ir] is defined.
HasHandler(ir) == Key(ir).k = "num" /\ Key(ir).d = 1 /\ Key(ir).n \in Opcodes

stopClock(s) == [s EXCEPT !.clock = "stopped"]

\* Mutant: HLT leaves the clock running.
H_HLT_NoStop(s) == s

H_HLT(s) == stopClock(s)

\* ------------------------------------------------------------ ALU
\* Mutant: DIV without the zero-divisor check.
aluDIV_NoHalt(s, regA, regB) ==
    [s EXCEPT !.reg = Put(s.reg, regA, JsDiv(Get(s.reg, regA), Get(s.reg, regB)))]

aluDIV(s, regA, regB) ==
    LET h == IF StrictEq(Get(s.reg, regB), Num(0))
             THEN H_HLT([s EXCEPT !.err = Append(@, "Divider cannot be zero")])
             ELSE s
    IN  [h EXCEPT !.reg = Put(h.reg, regA, JsDiv(Get(h.reg, regA), Get(h.reg, regB)))]

aluMOD(s, regA, regB) ==
    LET h == IF StrictEq(Get(s.reg, regB), Num(0))
             THEN H_HLT([s EXCEPT !.err = Append(@, "Divder cannot be zeor")])
             ELSE s
    IN  [h EXCEPT !.reg = Put(h.reg, regA, JsMod(Get(h.reg, regA), Get(h.reg, regB)))]

\* Mutant: CMP assigns the flag of this comparison instead of OR-ing it in.
aluCMP_Assign(s, regA, regB) ==
    LET a == Get(s.reg, regA)
        b == Get(s.reg, regB)
    IN  [s EXCEPT !.FL = IF StrictEq(a, b) THEN Num(1)
                         ELSE IF JsGt(a, b) THEN Num(2)
                         ELSE IF JsLt(a, b) THEN Num(4) ELSE @]

aluCMP(s, regA, regB) ==
    LET a == Get(s.reg, regA)
        b == Get(s.reg, regB)
        f1 == IF StrictEq(a, b) THEN JsOr(s.FL, Num(1)) ELSE s.FL
        f2 == IF JsGt(a, b) THEN JsOr(f1, Num(2)) ELSE f1
        f3 == IF JsLt(a, b) THEN JsOr(f2, Num(4)) ELSE f2
    IN  [s EXCEPT !.FL = f3]

aluINC(s, regA) ==
    [s EXCEPT !.reg = Put(s.reg, regA, JsAnd(JsAdd(Get(s.reg, regA), Num(1)), Num(255)))]

aluDEC(s, regA) ==
    [s EXCEPT !.reg = Put(s.reg, regA, JsSub(Get(s.reg, regA), Num(1)))]

\* Mutant: SUB subtracts the wrong way round.
aluValue_SubSwapped(op, a, b) ==
    CASE op = "ADD" -> JsAdd(a, b)
      [] op = "MUL" -> JsMul(a, b)
      [] op = "AND" -> JsAnd(a, b)
      [] op = "NOT" -> JsNot(a)
      [] op = "OR"  -> JsOr(a, b)
      [] op = "SUB" -> JsSub(b, a)
      [] op = "XOR" -> JsXor(a, b)

\* Mutant: MUL adds.
aluValue_MulAdds(op, a, b) ==
    CASE op = "ADD" -> JsAdd(a, b)
      [] op = "MUL" -> JsAdd(a, b)
      [] op = "AND" -> JsAnd(a, b)
      [] op = "NOT" -> JsNot(a)
      [] op = "OR"  -> JsOr(a, b)
      [] op = "SUB" -> JsSub(a, b)
      [] op = "XOR" -> JsXor(a, b)

\* The value the remaining ops store in reg[regA].
aluValue(op, a, b) ==
    CASE op = "ADD" -> JsAdd(a, b)
      [] op = "MUL" -> JsMul(a, b)
      [] op = "AND" -> JsAnd(a, b)
      [] op = "NOT" -> JsNot(a)
      [] op = "OR"  -> JsOr(a, b)
      [] op = "SUB" -> JsSub(a, b)
      [] op = "XOR" -> JsXor(a, b)

\* Mutant: a two-operand result is stored in regB.
alu_StoresInRegB(s, op, regA, regB) ==
    CASE op = "INC" -> aluINC(s, regA)
      [] op = "DEC" -> aluDEC(s, regA)
      [] op = "DIV" -> aluDIV(s, regA, regB)
      [] op = "CMP" -> aluCMP(s, regA, regB)
      [] op = "MOD" -> aluMOD(s, regA, regB)
      [] OTHER -> [s EXCEPT !.reg =
                      Put(s.reg, regB, aluValue(op, Get(s.reg, regA), Get(s.reg, regB)))]

alu(s, op, regA, regB) ==
    CASE op = "INC" -> aluINC(s, regA)
      [] op = "DEC" -> aluDEC(s, regA)
      [] op = "DIV" -> aluDIV(s, regA, regB)
      [] op = "CMP" -> aluCMP(s, regA, regB)
      [] op = "MOD" -> aluMOD(s, regA, regB)
      [] OTHER -> [s EXCEPT !.reg =
                      Put(s.reg, regA, aluValue(op, Get(s.reg, regA), Get(s.reg, regB)))]

\* ------------------------------------------------------------ handlers
\* A handler's result: the machine after it and the value it returns
\* (Undef when it returns nothing).
Done(s) == [s |-> s, ret |-> Undef]

\* Mutant: SP is incremented before the read.
_pop_IncFirst(s) ==
    LET t == aluINC(s, Num(SP))
    IN  [s |-> t, ret |-> ramRead(t.mem, Get(t.reg, Num(SP)))]

_pop(s) ==
    [s |-> aluINC(s, Num(SP)), ret |-> ramRead(s.mem, Get(s.reg, Num(SP)))]

\* Mutant: the value is written at SP before the decrement.
_push_WriteFirst(s, val) ==
    aluDEC([s EXCEPT !.mem = ramWrite(s.mem, Get(s.reg, Num(SP)), val)], Num(SP))

_push(s, val) ==
    LET t == aluDEC(s, Num(SP))
    IN  [t EXCEPT !.mem = ramWrite(t.mem, Get(t.reg, Num(SP)), val)]

H_LDI(s, regNum, value) == Done([s EXCEPT !.reg = Put(s.reg, regNum, value)])

H_POP(s, regA) ==
    LET p == _pop(s)
    IN  Done([p.s EXCEPT !.reg = Put(p.s.reg, regA, p.ret)])

H_PUSH(s, regA) == Done(_push(s, Get(s.reg, regA)))

H_CALL(s, regA) == [s |-> s, ret |-> Get(s.reg, regA)]

H_RET(s) == _pop(s)

H_JEQ(s, regA) ==
    [s |-> s, ret |-> IF StrictEq(s.FL, Num(1)) THEN Get(s.reg, regA) ELSE Undef]

H_JMP(s, regA) == [s |-> s, ret |-> Get(s.reg, regA)]

H_JNE(s, regA) ==
    [s |-> s, ret |-> IF StrictEq(s.FL, Num(0)) THEN Get(s.reg, regA) ELSE Undef]

H_PRN(s, regA) == Done([s EXCEPT !.out = Append(@, Get(s.reg, regA))])

\* branchTable[op].call(this, operandA, operandB)
Handler(op, s, operandA, operandB) ==
    CASE op = HLT  -> Done(H_HLT(s))
      [] op = ADD  -> Done(alu(s, "ADD", operandA, operandB))
      [] op = MUL  -> Done(alu(s, "MUL", operandA, operandB))
      [] op = LDI  -> H_LDI(s, operandA, operandB)
      [] op = PRN  -> H_PRN(s, operandA)
      [] op = POP  -> H_POP(s, operandA)
      [] op = PUSH -> H_PUSH(s, operandA)
      [] op = CALL -> H_CALL(s, operandA)
      [] op = RET  -> H_RET(s)
      [] op = AND  -> Done(alu(s, "AND", operandA, operandB))
      [] op = NOP  -> Done(s)
      [] op = INC  -> Done(alu(s, "INC", operandA, Undef))
      [] op = DEC  -> Done(alu(s, "DEC", operandA, Undef))
      [] op = DIV  -> Done(alu(s, "DIV", operandA, operandB))
      [] op = CMP  -> Done(alu(s, "CMP", operandA, operandB))
      [] op = JEQ  -> H_JEQ(s, operandA)
      [] op = JMP  -> H_JMP(s, operandA)
      [] op = JNE  -> H_JNE(s, operandA)
      [] op = MOD  -> Done(alu(s, "MOD", operandA, operandB))
      [] op = NOT  -> Done(alu(s, "NOT", operandA, Undef))
      [] op = OR   -> Done(alu(s, "OR", operandA, operandB))
      [] op = SUB  -> Done(alu(s, "SUB", operandA, operandB))
      [] op = XOR  -> Done(alu(s, "XOR", operandA, operandB))

\* ((IR >> 6) & 0b00000011) + 1
Advance(ir) == ((ToInt32(ir) \div 64) % 4) + 1

\* Mutant: the default advance skips the opcode only, not its operands.
NextPC_NoOperandSkip(pc, ir, nextPC) ==
    IF nextPC # Undef THEN nextPC ELSE JsAdd(pc, Num(1))

\* Mutant: the override is taken on a truthy value only (if (nextPC)).
NextPC_Truthy(pc, ir, nextPC) ==
    IF nextPC # Undef /\ nextPC.k # "nan" /\ ~IsZero(nextPC)
    THEN nextPC
    ELSE JsAdd(pc, Num(Advance(ir)))

\* The PC after a handled instruction.
NextPC(pc, ir, nextPC) == IF nextPC # Undef THEN nextPC ELSE JsAdd(pc, Num(Advance(ir)))

\* ------------------------------------------------------------ programs
\* poke(address, value)
poke(m, address, value) == ramWrite(m, Num(address), Num(value))

\* The loader: pokes the bytes of prog at addresses 0, 1, ...
RECURSIVE pokeAll(_, _, _)
pokeAll(m, prog, i) ==
    IF i > Len(prog) THEN m ELSE pokeAll(poke(m, i - 1, prog[i]), prog, i + 1)

\* Literals the generated programs load into R0 and into R1.
LitsA == {1, 255}
LitsB == {0, 255}

\* Instructions a generated program draws its body from.
Instrs ==
    {<<op, 0, 1>> : op \in {ADD, SUB, MUL, DIV, CMP}}
    \cup {<<CMP, 1, 0>>, <<ADD, SP, SP>>, <<INC, 0>>, <<NOT, 0>>, <<PRN, 0>>}
    \cup {<<PUSH, 0>>, <<POP, 1>>, <<JMP, 1>>, <<JEQ, 1>>, <<JNE, 1>>}
    \cup {<<RET>>, <<NOP>>, <<255>>}

RECURSIVE Bodies(_)
Bodies(n) ==
    IF n = 0 THEN {<<>>}
    ELSE Bodies(n - 1) \cup {b \o i : b \in Bodies(n - 1), i \in Instrs}

\* LDI R0,a; LDI R1,b; up to MaxBody instructions; HLT
Generated ==
    {<<LDI, 0, a, LDI, 1, b>> \o body \o <<HLT>> :
        a \in LitsA, b \in LitsB, body \in Bodies(MaxBody)}

\* Operand values of the one-instruction programs.
Vals == {0, 1, 2, 9, 10, 128, 255}

\* LDI R0,a; LDI R1,b; op Rx,Ry; PRN R0; HLT for every ALU instruction
AluProgs ==
    {<<LDI, 0, a, LDI, 1, b>> \o <<op>> \o xy \o <<PRN, 0, HLT>> :
        a \in Vals, b \in Vals,
        op \in {ADD, SUB, MUL, DIV, MOD, AND, OR, XOR, CMP},
        xy \in {<<0, 1>>, <<1, 0>>, <<0, 0>>}}
    \cup {<<LDI, 0, a, op, 0, PRN, 0, HLT>> : a \in Vals, op \in {INC, DEC, NOT}}

\* LDI R0,8; LDI R1,9; MUL R0,R1; PRN R0; HLT
ProgMul == <<LDI, 0, 8, LDI, 1, 9, MUL, 0, 1, PRN, 0, HLT>>

\* LDI R0,10; LDI R1,0; DIV R0,R1; HLT  (and the same with MOD)
ProgDivZero == <<LDI, 0, 10, LDI, 1, 0, DIV, 0, 1, HLT>>
ProgModZero == <<LDI, 0, 10, LDI, 1, 0, MOD, 0, 1, HLT>>

\* LDI Rr,v; instructions moving SP; PUSH Rr; POP Rr; HLT
StackProgs ==
    {<<LDI, r, v>> \o mv \o <<PUSH, r, POP, r, HLT>> :
        r \in 0..7, v \in {0, 5, 255},
        mv \in {<<NOP>>, <<ADD, SP, SP>>, <<LDI, SP, 0>>, <<NOT, SP>>, <<LDI, 6, 3, DIV, SP, 6>>}}

\* LDI Rr,v; INC Rr; DEC Rr; HLT and LDI Rr,v; DEC Rr; INC Rr; HLT
IncDecProgs ==
    {<<LDI, r, v, o[1], r, o[2], r, HLT>> :
        r \in 0..7, v \in {0, 1, 128, 254, 255}, o \in {<<INC, DEC>>, <<DEC, INC>>}}

\* LDI R0,a; LDI R1,b; CMP R0,R1; CMP x,y; Jcc R2; HLT with R2 = 0
FlagProgs ==
    {<<LDI, 0, a, LDI, 1, b, CMP, 0, 1>> \o c \o <<j, 2, HLT>> :
        a \in {0, 1, 255}, b \in {0, 1, 255}, c \in {<<CMP, 0, 0>>, <<CMP, 1, 0>>, <<NOP>>},
        j \in {JEQ, JNE, JMP, CALL}}

\* LDI R0,12; LDI R1,13; PUSH R0; CALL R1; NOP; NOP; HLT; RET
ProgCall == <<LDI, 0, 12, LDI, 1, 13, PUSH, 0, CALL, 1, NOP, NOP, HLT, RET>>

\* LDI R0,a; LDI R1,13; PUSH R0; CALL R1; NOP; NOP; HLT; then at 13 a
\* subroutine ending in RET
CallProgs ==
    {<<LDI, 0, a, LDI, 1, 13, PUSH, 0, CALL, 1, NOP, NOP, HLT>> \o sub :
        a \in {0, 10, 12, 255},
        sub \in {<<RET>>, <<NOP, RET>>, <<INC, 0, RET>>}}

\* LDI R0,a; LDI R1,b; an instruction moving SP; PUSH; PUSH; POP; POP; HLT
LifoProgs ==
    {<<LDI, 0, ab[1], LDI, 1, ab[2]>> \o mv
        \o <<PUSH, xy[1], PUSH, xy[2], POP, zw[1], POP, zw[2], HLT>> :
        ab \in {<<5, 9>>, <<255, 0>>},
        mv \in {<<NOP>>, <<LDI, SP, 1>>, <<LDI, SP, 0>>, <<ADD, SP, SP>>, <<NOT, SP>>},
        xy \in {<<0, 1>>, <<1, SP>>},
        zw \in {<<0, 1>>, <<1, 0>>, <<2, 2>>}}

\* LDI R0,a; LDI R1,b; op Rx,Ry; inverse Rx,Ry; HLT
RoundTripProgs ==
    {<<LDI, 0, a, LDI, 1, b>> \o <<o[1]>> \o xy \o <<o[2]>> \o xy \o <<HLT>> :
        a \in Vals, b \in Vals,
        o \in {<<ADD, SUB>>, <<SUB, ADD>>, <<XOR, XOR>>, <<MUL, DIV>>},
        xy \in {<<0, 1>>, <<1, 0>>, <<0, 0>>, <<1, SP>>}}

Programs ==
    Generated \cup AluProgs \cup StackProgs \cup IncDecProgs \cup FlagProgs
    \cup RoundTripProgs \cup CallProgs \cup LifoProgs
    \cup {ProgMul, ProgDivZero, ProgModZero, ProgCall}

\* ------------------------------------------------------------ actions
Init ==
    /\ reg = [x \in {Num(i) : i \in 0..7} |-> IF x = Num(SP) THEN Num(244) ELSE Num(0)]
    /\ PC = Num(0)
    /\ IR = Num(0)
    /\ FL = Undef
    /\ mem = [x \in {} |-> Num(0)]
    /\ clock = "unset"
    /\ out = <<>>
    /\ err = <<>>
    /\ loaded = FALSE
    /\ ticks = 0
    /\ pre = <<>>

\* The loader pokes a program into memory before the clock is started.
LoadMemory ==
    /\ ~loaded
    /\ clock = "unset"
    /\ \E prog \in Programs : mem' = pokeAll(mem, prog, 1)
    /\ loaded' = TRUE
    /\ UNCHANGED <<reg, PC, IR, FL, clock, out, err, ticks, pre>>

startClock ==
    /\ loaded
    /\ clock = "unset"
    /\ clock' = "running"
    /\ UNCHANGED <<reg, PC, IR, FL, mem, out, err, loaded, ticks, pre>>

Small(v) == Abs(v.n) <= MaxMag /\ v.d <= MaxMag

\* The operands the next instruction computes with are within MaxMag.
WithinMag ==
    LET ir == ramRead(mem, PC)
    IN  HasHandler(ir) /\ Key(ir).n \in {ADD, SUB, MUL, DIV, MOD, CMP} =>
            /\ Small(Get(reg, ramRead(mem, JsAdd(PC, Num(1)))))
            /\ Small(Get(reg, ramRead(mem, JsAdd(PC, Num(2)))))

\* Mutant: the unknown opcode is reported but the clock keeps running.
Unknown_NoStop(s) == [s EXCEPT !.err = Append(@, "Unknown opcode")]

\* The unknown-opcode branch of tick(): report, stop the clock, return.
Unknown(s) == stopClock([s EXCEPT !.err = Append(@, "Unknown opcode")])

\* The body of tick() run on machine s with program counter pc.
Step(s, pc) ==
    LET ir == ramRead(s.mem, pc)
    IN  IF ~HasHandler(ir)
        THEN [s |-> Unknown(s), PC |-> pc, IR |-> ir]
        ELSE LET operandA == ramRead(s.mem, JsAdd(pc, Num(1)))
                 operandB == ramRead(s.mem, JsAdd(pc, Num(2)))
                 r == Handler(Key(ir).n, s, operandA, operandB)
             IN  [s |-> r.s, PC |-> NextPC(pc, ir, r.ret), IR |-> ir]

\* One firing of the interval timer set by startClock: tick().
tick ==
    /\ clock = "running"
    /\ ticks < MaxTicks
    /\ WithinMag
    /\ LET t == Step(Machine, PC)
       IN  /\ IR' = t.IR
           /\ PC' = t.PC
           /\ reg' = t.s.reg
           /\ FL' = t.s.FL
           /\ mem' = t.s.mem
           /\ clock' = t.s.clock
           /\ out' = t.s.out
           /\ err' = t.s.err
    /\ ticks' = ticks + 1
    /\ pre' = LET h == <<Snapshot>> \o pre
               IN  IF Len(h) > HistLen THEN SubSeq(h, 1, HistLen) ELSE h
    /\ UNCHANGED loaded

Next == LoadMemory \/ startClock \/ tick

Spec == Init /\ [][Next]_vars

\* ------------------------------------------------------------ properties
\* What the last tick (pre[1] -> now) and the ones before it (pre[2] -> pre[1],
\* ...) fetched and executed.
Ticked == pre # <<>>
Ticked2 == Len(pre) >= 2
Ticked3 == Len(pre) >= 3
Ticked4 == Len(pre) >= 4
OpAt(p) == ramRead(p.mem, p.PC)
OpA(p) == ramRead(p.mem, JsAdd(p.PC, Num(1)))
OpB(p) == ramRead(p.mem, JsAdd(p.PC, Num(2)))
Ran(p, op) == HasHandler(OpAt(p)) /\ Key(OpAt(p)).n = op
IsByte(v) == v.k = "num" /\ v.d = 1 /\ v.n >= 0 /\ v.n <= 255
GPR == {Num(i) : i \in 0..7}
EqualBit(fl) == BitAnd(ToInt32(fl), 1) = 1
Loaded(prog) == mem = pokeAll([x \in {} |-> Num(0)], prog, 1)

\* Opcodes whose handler never returns a next-PC value.
NoReturnOps == {LDI, PRN, PUSH, POP, NOP, HLT, ADD, SUB, MUL, DIV, MOD, INC, DEC,
                AND, OR, XOR, NOT, CMP}

\* The default advance the claim states: +3, +2, +1 by the top two bits.
ClaimedAdvance(op) ==
    IF op \div 64 = 2 THEN 3 ELSE IF op \div 64 = 1 THEN 2 ELSE 1

\* C1: after a tick whose handler returns no next-PC value (every opcode of
\* NoReturnOps; JEQ and JNE when the PC did not go to the target register's
\* value), PC = old PC + 3 for opcodes 10xxxxxx, + 2 for 01xxxxxx, + 1 for
\* 00xxxxxx.
C1_DefaultAdvance ==
    Ticked /\ HasHandler(IR) =>
        LET op == Key(IR).n
            adv == JsAdd(pre[1].PC, Num(ClaimedAdvance(op)))
        IN  /\ op \in NoReturnOps => PC = adv
            /\ op \in {JEQ, JNE} => PC = adv \/ PC = Get(pre[1].reg, OpA(pre[1]))

C1_Witness ==
    /\ Ticked2
    /\ Ran(pre[2], LDI) /\ pre[1].PC = JsAdd(pre[2].PC, Num(3))
    /\ Ran(pre[1], PUSH) /\ PC = JsAdd(pre[1].PC, Num(2))

\* C2: a tick that fetches an opcode without a branch-table entry changes
\* nothing but IR (PC, FL, the registers and memory keep their values), stops
\* the clock, and is the last tick of the run: no tick follows it.
C2_UnknownOpcodeHalts ==
    /\ Ticked /\ ~HasHandler(IR) =>
          /\ IR = OpAt(pre[1])
          /\ PC = pre[1].PC /\ FL = pre[1].FL
          /\ reg = pre[1].reg /\ mem = pre[1].mem
          /\ clock = "stopped"
    /\ Ticked2 => HasHandler(OpAt(pre[2]))

C2_Witness ==
    /\ Ticked2 /\ ~HasHandler(IR) /\ IR = Num(255)
    /\ clock = "stopped" /\ ticks < MaxTicks

\* The last tick / the tick before it ran DIV or MOD with a zero divisor.
ZeroDivide(p) ==
    /\ Ran(p, DIV) \/ Ran(p, MOD)
    /\ StrictEq(Get(p.reg, OpB(p)), Num(0))

\* C3: DIV or MOD with reg[regB] = 0 reports the fault and stops the clock as
\* HLT does, and no tick follows it; for LDI R0,10; LDI R1,0; DIV R0,R1; HLT
\* the run ends at the DIV, its third tick, with that one diagnostic.
C3_DivideByZeroHalts ==
    /\ Ticked /\ ZeroDivide(pre[1]) =>
          /\ clock = "stopped"
          /\ err # <<>>
          /\ err[Len(err)] \in {"Divider cannot be zero", "Divder cannot be zeor"}
          /\ mem = pre[1].mem /\ FL = pre[1].FL
    /\ Ticked2 => ~ZeroDivide(pre[2])
    /\ Loaded(ProgDivZero) /\ clock # "unset" =>
          /\ ticks <= 3
          /\ clock = "stopped" <=> ticks = 3
          /\ ticks = 3 => err = <<"Divider cannot be zero">> /\ IR = Num(DIV)
          /\ ticks < 3 => err = <<>>

C3_Witness ==
    /\ Loaded(ProgDivZero) /\ ticks = 3 /\ clock = "stopped"
    /\ ZeroDivide(pre[1])

\* C4 (as claimed): every general-purpose register always holds an integer
\* in 0..255.
C4_RegistersAreBytes == \A r \in GPR : IsByte(Get(reg, r))

\* The flag CMP should leave for a and b: exactly one of Equal, Greater, Less.
ExactFlag(a, b) ==
    IF StrictEq(a, b) THEN Num(1) ELSE IF JsGt(a, b) THEN Num(2) ELSE Num(4)

\* C5 (as claimed): after CMP regA,regB the flags are exactly the one bit of
\* the comparison, and no other instruction changes FL.
C5_CmpSetsExactlyOneFlag ==
    Ticked /\ HasHandler(IR) =>
        IF Ran(pre[1], CMP)
        THEN FL = ExactFlag(Get(pre[1].reg, OpA(pre[1])), Get(pre[1].reg, OpB(pre[1])))
        ELSE FL = pre[1].FL

\* C6 (as claimed): JEQ jumps to the register's value when the Equal bit is
\* set and otherwise advances by 2; JNE jumps when the Equal bit is clear
\* (also before any CMP) and otherwise advances by 2.
C6_ConditionalJumps ==
    Ticked =>
        LET target == Get(pre[1].reg, OpA(pre[1]))
            fall == JsAdd(pre[1].PC, Num(2))
        IN  /\ Ran(pre[1], JEQ) => PC = IF EqualBit(pre[1].FL) THEN target ELSE fall
            /\ Ran(pre[1], JNE) => PC = IF EqualBit(pre[1].FL) THEN fall ELSE target

\* C7: JMP reg and CALL reg set PC to the value the register holds, whatever
\* it is (0 included), with no default advance.  (A register that holds no
\* value, undefined, cannot be returned as a next-PC value.)
C7_ExplicitNextPC ==
    Ticked /\ (Ran(pre[1], JMP) \/ Ran(pre[1], CALL)) =>
        LET target == Get(pre[1].reg, OpA(pre[1]))
        IN  target # Undef => PC = target

C7_Witness ==
    /\ Ticked /\ Ran(pre[1], JMP)
    /\ Get(pre[1].reg, OpA(pre[1])) = Num(0) /\ PC = Num(0)

\* C8 (as claimed): PUSH r immediately followed by POP r, r in 0..7, leaves
\* reg[r] and SP as they were before the PUSH.
C8_PushPopIdentity ==
    Ticked2 /\ Ran(pre[2], PUSH) /\ Ran(pre[1], POP)
      /\ OpA(pre[2]) = OpA(pre[1]) /\ OpA(pre[1]) \in GPR =>
        /\ Get(reg, OpA(pre[1])) = Get(pre[2].reg, OpA(pre[1]))
        /\ Get(reg, Num(SP)) = Get(pre[2].reg, Num(SP))

\* C9: LDI R0,8; LDI R1,9; MUL R0,R1; PRN R0; HLT prints 72 at its fourth
\* tick and nothing else, stops at the HLT, its fifth tick, and reports no
\* error.
C9_MulProgram ==
    Loaded(ProgMul) /\ clock # "unset" =>
        /\ ticks <= 5
        /\ err = <<>>
        /\ out = IF ticks >= 4 THEN <<Num(72)>> ELSE <<>>
        /\ clock = "stopped" <=> ticks = 5
        /\ ticks = 5 => IR = Num(HLT)

C9_Witness ==
    /\ Loaded(ProgMul) /\ ticks = 5 /\ clock = "stopped"
    /\ out = <<Num(72)>> /\ IR = Num(HLT)

\* C10 (as claimed): INC r then DEC r, and DEC r then INC r, on a register
\* holding a value in 0..255 return it to that value.
C10_IncDecRoundTrip ==
    Ticked2 /\ OpA(pre[2]) = OpA(pre[1]) /\ OpA(pre[1]) \in GPR
      /\ IsByte(Get(pre[2].reg, OpA(pre[1])))
      /\ \/ Ran(pre[2], INC) /\ Ran(pre[1], DEC)
         \/ Ran(pre[2], DEC) /\ Ran(pre[1], INC)
      => Get(reg, OpA(pre[1])) = Get(pre[2].reg, OpA(pre[1]))

\* The last two ticks ran a binary ALU op and then its inverse on the same
\* two registers of 0..7, which held bytes (a non-zero one in regB for MUL
\* then DIV).
RanInversePair ==
    /\ Ticked2
    /\ OpA(pre[2]) = OpA(pre[1]) /\ OpB(pre[2]) = OpB(pre[1])
    /\ OpA(pre[1]) \in GPR /\ OpB(pre[1]) \in GPR
    /\ IsByte(Get(pre[2].reg, OpA(pre[1]))) /\ IsByte(Get(pre[2].reg, OpB(pre[1])))
    /\ \/ Ran(pre[2], ADD) /\ Ran(pre[1], SUB)
       \/ Ran(pre[2], SUB) /\ Ran(pre[1], ADD)
       \/ Ran(pre[2], XOR) /\ Ran(pre[1], XOR)
       \/ Ran(pre[2], MUL) /\ Ran(pre[1], DIV) /\ Get(pre[2].reg, OpB(pre[1])) # Num(0)

\* x and y are integers congruent mod 256.
SameMod256(x, y) ==
    /\ x.k = "num" /\ x.d = 1 /\ y.k = "num" /\ y.d = 1
    /\ (x.n - y.n) % 256 = 0

\* C11 (as claimed): an op then its inverse on regA,regB, regA = regB
\* included, leaves reg[regA] at its original value mod 256.
C11_InverseRoundTrip_AnyRegs ==
    RanInversePair => SameMod256(Get(reg, OpA(pre[1])), Get(pre[2].reg, OpA(pre[1])))

\* C11 (amended): for regA # regB, ADD then SUB, SUB then ADD, XOR then XOR
\* and MUL then DIV (non-zero regB) leave reg[regA] at its original value
\* mod 256.
C11_InverseRoundTrip ==
    RanInversePair /\ OpA(pre[1]) # OpB(pre[1]) =>
        SameMod256(Get(reg, OpA(pre[1])), Get(pre[2].reg, OpA(pre[1])))

C11_Witness ==
    /\ RanInversePair /\ OpA(pre[1]) # OpB(pre[1])
    /\ Ran(pre[2], MUL) /\ Get(pre[2].reg, OpA(pre[1])) = Num(9)
    /\ Get(pre[1].reg, OpA(pre[1])) = Num(2295)
    /\ Get(reg, OpA(pre[1])) = Num(9)

\* C12 (as claimed): before the first tick, registers 0..6 are 0, the SP
\* register holds 0xF4, and PC, IR and FL are 0.
C12_InitialState ==
    ticks = 0 =>
        /\ \A i \in 0..6 : Get(reg, Num(i)) = Num(0)
        /\ Get(reg, Num(SP)) = Num(244)
        /\ PC = Num(0) /\ IR = Num(0) /\ FL = Num(0)

\* C13: a tick that executes HLT changes no general-purpose register, FL or
\* memory and stops the clock, and no tick follows it, so nothing changes
\* afterwards.
C13_HltIsTerminal ==
    /\ Ticked /\ Ran(pre[1], HLT) =>
          /\ clock = "stopped"
          /\ reg = pre[1].reg /\ FL = pre[1].FL /\ mem = pre[1].mem
    /\ \A i \in 2..Len(pre) : ~Ran(pre[i], HLT)
    /\ Ticked => pre[1].clock = "running"

C13_Witness ==
    /\ Ticked2 /\ Ran(pre[1], HLT) /\ IR = Num(HLT)
    /\ clock = "stopped" /\ ticks < MaxTicks

\* The flag bits of fl (none for undefined).
FlagBits(fl) == BitAnd(ToInt32(fl), 7)

\* C14: every flag bit set before a tick is still set after it: FL only
\* gains bits over a run.
C14_FlagsMonotone ==
    \A i \in 1..Len(pre) :
        LET before == FlagBits(pre[i].FL)
            after == FlagBits(IF i = 1 THEN FL ELSE pre[i - 1].FL)
        IN  BitAnd(before, after) = before

C14_Witness ==
    /\ Ticked2 /\ Ran(pre[2], CMP) /\ Ran(pre[1], CMP)
    /\ pre[2].FL = Undef /\ pre[1].FL = Num(2) /\ FL = Num(6)

\* C15 (as claimed): PC is always an address in 0..255, and so are the
\* operand addresses PC+1 and PC+2 of every executed instruction.
C15_PCInRange ==
    /\ IsByte(PC)
    /\ Ticked /\ HasHandler(IR) =>
          IsByte(JsAdd(pre[1].PC, Num(1))) /\ IsByte(JsAdd(pre[1].PC, Num(2)))

\* The machine after snapshot pre[i].
After(i) == IF i = 1 THEN Snapshot ELSE pre[i - 1]

\* The tick from pre[i] left the stack alone: no PUSH, POP or RET, SP kept.
StackQuiet(i) ==
    /\ ~Ran(pre[i], PUSH) /\ ~Ran(pre[i], POP) /\ ~Ran(pre[i], RET)
    /\ Get(After(i).reg, Num(SP)) = Get(pre[i].reg, Num(SP))
    /\ After(i).mem = pre[i].mem

\* The last k ticks were PUSH r; CALL t; k-3 ticks that leave the stack
\* alone; RET.
PushCallRet(k) ==
    /\ Len(pre) >= k
    /\ Ran(pre[k], PUSH) /\ Ran(pre[k - 1], CALL) /\ Ran(pre[1], RET)
    /\ \A j \in 2..(k - 2) : StackQuiet(j)

\* C16: RET sets PC to the value stored at Memory[SP] (when a value is
\* stored there), sets SP to SP + 1 mod 256 and leaves memory unchanged;
\* CALL reg sets PC to reg[reg] and changes no register or memory cell; after
\* PUSH r; CALL t; ...; RET the PC is the value r held at the PUSH.
C16_CallRet ==
    /\ Ticked /\ Ran(pre[1], RET) =>
          LET sp == Get(pre[1].reg, Num(SP))
              top == ramRead(pre[1].mem, sp)
          IN  /\ top # Undef => PC = top
              /\ sp.k = "num" /\ sp.d = 1 => Get(reg, Num(SP)) = Num((sp.n + 1) % 256)
              /\ mem = pre[1].mem
    /\ Ticked /\ Ran(pre[1], CALL) =>
          /\ Get(pre[1].reg, OpA(pre[1])) # Undef => PC = Get(pre[1].reg, OpA(pre[1]))
          /\ reg = pre[1].reg /\ mem = pre[1].mem
    /\ \A k \in 3..HistLen :
          PushCallRet(k) /\ Get(pre[k].reg, OpA(pre[k])) # Undef =>
              PC = Get(pre[k].reg, OpA(pre[k]))

C16_Witness ==
    /\ PushCallRet(4) /\ Ran(pre[2], NOP)
    /\ Get(pre[4].reg, OpA(pre[4])) = Num(12) /\ PC = Num(12)
    /\ Get(reg, Num(SP)) = Num(244) /\ pre[1].PC = Num(14)

\* SP before the tick from pre[i], and after it.
SPBefore(i) == Get(pre[i].reg, Num(SP))
SPAfter(i) == Get(After(i).reg, Num(SP))

\* The tick from pre[i] was a PUSH that decremented SP by exactly 1 and
\* wrote the register's value at the new SP.
PushStep(i) ==
    /\ SPAfter(i) = JsSub(SPBefore(i), Num(1))
    /\ ramRead(After(i).mem, SPAfter(i)) = Get(pre[i].reg, OpA(pre[i]))

\* The tick from pre[i] was a POP that read at SP into its register and
\* then incremented SP by exactly 1.
PopStep(i) ==
    /\ Get(After(i).reg, OpA(pre[i])) = ramRead(pre[i].mem, SPBefore(i))
    /\ SPAfter(i) = JsAdd(SPBefore(i), Num(1))

\* The last 2n ticks were n PUSH then n POP, no POP into SP.
Balanced(n) ==
    /\ Len(pre) >= 2 * n
    /\ \A i \in (n + 1)..(2 * n) : Ran(pre[i], PUSH)
    /\ \A i \in 1..n : Ran(pre[i], POP) /\ Key(OpA(pre[i])) # Num(SP)

\* C17 (as claimed): after n PUSH and n POP (n = 1, 2) from any reachable SP
\* the POPs return the pushed values in reverse order, SP is back at its
\* starting value, every PUSH decremented SP by exactly 1 before writing and
\* every POP read at SP before incrementing it by exactly 1.
C17_StackLifo ==
    \A n \in 1..(HistLen \div 2) :
        Balanced(n) =>
            /\ \A i \in 1..n :
                  Get(After(i).reg, OpA(pre[i]))
                      = Get(pre[2 * n + 1 - i].reg, OpA(pre[2 * n + 1 - i]))
            /\ Get(reg, Num(SP)) = SPBefore(2 * n)
            /\ \A i \in (n + 1)..(2 * n) : PushStep(i)
            /\ \A i \in 1..n : PopStep(i)

\* Every cell of memory m2 other than the one at addr is as in m1.
SameCellsExcept(m1, m2, addr) ==
    /\ DOMAIN m1 \subseteq DOMAIN m2
    /\ \A k \in DOMAIN m2 :
          k # Key(addr) => k \in DOMAIN m1 /\ m2[k] = m1[k]

\* C18: a tick that executes anything but PUSH leaves every memory cell
\* unchanged; a PUSH tick leaves every cell unchanged other than the one at
\* the address SP holds after the decrement.
C18_OnlyPushWritesMemory ==
    Ticked =>
        IF Ran(pre[1], PUSH)
        THEN SameCellsExcept(pre[1].mem, mem, Get(reg, Num(SP)))
        ELSE mem = pre[1].mem

\* A PUSH wrote a new value to the cell at SP, and memory changed.
C18_Witness ==
    /\ Ticked /\ Ran(pre[1], PUSH)
    /\ mem # pre[1].mem
    /\ ramRead(mem, Get(reg, Num(SP))) = Get(pre[1].reg, OpA(pre[1]))
    /\ ramRead(pre[1].mem, Get(reg, Num(SP))) # Get(pre[1].reg, OpA(pre[1]))

\* The ALU instructions that store a result in reg[regA].
AluWriters == {ADD, SUB, MUL, DIV, MOD, AND, OR, XOR, NOT, INC, DEC}

\* Every register of 0..7 other than dest is as before the last tick.
OtherRegsKept(dest) ==
    \A r \in GPR : r # Key(dest) => Get(reg, r) = Get(pre[1].reg, r)

\* C19: LDI sets reg[reg] to the literal and changes no other register of
\* 0..7; an ALU instruction changes no register of 0..7 other than reg[regA];
\* CMP changes no register of 0..7; NOP and PRN leave the registers, FL,
\* memory and the clock as they were (PRN's printed line is output).
C19_RegisterFrame ==
    Ticked =>
        /\ Ran(pre[1], LDI) =>
              /\ Get(reg, OpA(pre[1])) = OpB(pre[1])
              /\ OtherRegsKept(OpA(pre[1]))
        /\ (\E op \in AluWriters : Ran(pre[1], op)) => OtherRegsKept(OpA(pre[1]))
        /\ Ran(pre[1], CMP) => reg = pre[1].reg
        /\ (Ran(pre[1], NOP) \/ Ran(pre[1], PRN)) =>
              /\ reg = pre[1].reg /\ FL = pre[1].FL
              /\ mem = pre[1].mem /\ clock = pre[1].clock

\* An ADD on two different registers changed reg[regA] and left SP alone.
C19_Witness ==
    /\ Ticked /\ Ran(pre[1], ADD)
    /\ OpA(pre[1]) \in GPR /\ OpB(pre[1]) \in GPR
    /\ OpA(pre[1]) # OpB(pre[1]) /\ OpA(pre[1]) # Num(SP)
    /\ Get(reg, OpA(pre[1])) # Get(pre[1].reg, OpA(pre[1]))
    /\ Get(reg, Num(SP)) = Get(pre[1].reg, Num(SP))

====
